---- MODULE Spec2Model ----
(***************************************************************************)
(* Model of the task analyzer backend: tasks/serializers.py                *)
(* (extract_tasks_and_strategy), tasks/scoring.py (normalise_tasks,        *)
(* _build_graph, _detect_cycles, the four factor scorers,                  *)
(* _compute_score_for_strategy, rank_tasks) and the part of                *)
(* tasks/views.py (analyze_tasks) that drives them.                        *)
(*                                                                         *)
(* One POST request is one behaviour: the body is decoded into a payload   *)
(* and the actions follow analyze_tasks through extraction, normalisation, *)
(* graph construction, the depth-first cycle detection (one action per     *)
(* call, loop iteration and return of visit), scoring and the final sort.  *)
(*                                                                         *)
(* Numbers.  Python floats are modelled as exact rationals in fixed point: *)
(* hours in thousandths of an hour, factor scores in 1/FU, composite       *)
(* scores in 1/(100*FU), the rounded score in hundredths.  Strings are     *)
(* sequences of chunks; the chunk " " is whitespace, every other chunk is  *)
(* a run of non-whitespace characters ("," and the decimal digits are      *)
(* chunks of their own).  A well-formed calendar string is the value       *)
(* DateStrV(d, pad): the day it names, counted from today, and whether it  *)
(* is written zero-padded as date.isoformat() writes it.                   *)
(***************************************************************************)
EXTENDS Integers, Sequences, FiniteSets, TLC

VARIABLES
    pc,                 \* where analyze_tasks / rank_tasks stands
    payload,            \* the decoded JSON body (views.py:48)
    tasks_raw,          \* extract_tasks_and_strategy's first result
    strategy,           \* extract_tasks_and_strategy's second result
    tasks,              \* rank_tasks: tasks = normalise_tasks(raw_tasks)
    order,              \* the keys of `graph` in dict insertion order
    graph,              \* _build_graph: graph
    dependents_count,   \* _build_graph: dependents_count
    visited,            \* _detect_cycles: visited
    stack,              \* _detect_cycles: stack
    in_cycle,           \* _detect_cycles: in_cycle
    root_i,             \* _detect_cycles: position of `for node in graph`
    frames,             \* the active calls of visit: <<[node, i]>>, innermost last
    entered,            \* how often visit added each node to visited and stack
    results,            \* rank_tasks: results
    exc                 \* the exception that ended the request, or "none"

vars == <<pc, payload, tasks_raw, strategy, tasks, order, graph,
          dependents_count, visited, stack, in_cycle, root_i, frames,
          entered, results, exc>>

-----------------------------------------------------------------------------
(* JSON values as json.loads produces them *)

Null == [t |-> "null"]

BoolV(b) == [t |-> "bool", b |-> b]

IntV(n) == [t |-> "int", n |-> n]

\* a finite float, in thousandths
FloatV(m) == [t |-> "float", m |-> m]

\* float('inf'), which json.loads reads from Infinity
InfV == [t |-> "inf"]

StrV(s) == [t |-> "str", s |-> s]

DateStrV(d, pad) == [t |-> "datestr", d |-> d, pad |-> pad]

ListV(items) == [t |-> "list", items |-> items]

DictV(f) == [t |-> "dict", f |-> f]

\* a datetime.date held by a TaskInput: the day, counted from today
DateV(d) == [t |-> "date", d |-> d]

IsStr(v) == v.t \in {"str", "datestr"}

\* bool(v)
Truthy(v) ==
    CASE v.t = "null" -> FALSE
      [] v.t = "bool" -> v.b
      [] v.t = "int" -> v.n # 0
      [] v.t = "float" -> v.m # 0
      [] v.t = "str" -> v.s # <<>>
      [] v.t = "list" -> v.items # <<>>
      [] v.t = "dict" -> DOMAIN v.f # {}
      [] OTHER -> TRUE

\* hash(v) succeeds: lists and dicts are unhashable
Hashable(v) == v.t \notin {"list", "dict"}

\* record.get(key): None when the key is absent
Get(rec, key) == IF key \in DOMAIN rec.f THEN rec.f[key] ELSE Null

\* a or b
Or(a, b) == IF Truthy(a) THEN a ELSE b

-----------------------------------------------------------------------------
(* Strings *)

RECURSIVE LStrip(_)
LStrip(s) == IF s # <<>> /\ Head(s) = " " THEN LStrip(Tail(s)) ELSE s

RECURSIVE RStrip(_)
RStrip(s) ==
    IF s # <<>> /\ s[Len(s)] = " " THEN RStrip(SubSeq(s, 1, Len(s) - 1)) ELSE s

\* s.strip()
Strip(s) == RStrip(LStrip(s))

Digits == {"0", "1", "2", "3", "4", "5", "6", "7", "8", "9"}

DigitValue(c) ==
    CASE c = "0" -> 0 [] c = "1" -> 1 [] c = "2" -> 2 [] c = "3" -> 3
      [] c = "4" -> 4 [] c = "5" -> 5 [] c = "6" -> 6 [] c = "7" -> 7
      [] c = "8" -> 8 [] c = "9" -> 9

IsDigits(s) == s # <<>> /\ \A i \in 1..Len(s) : s[i] \in Digits

RECURSIVE DigitsValue(_)
DigitsValue(s) ==
    IF s = <<>> THEN 0
    ELSE 10 * DigitsValue(SubSeq(s, 1, Len(s) - 1)) + DigitValue(s[Len(s)])

\* the index of the first "," of s, or 0
RECURSIVE FirstComma(_, _)
FirstComma(s, i) ==
    IF i > Len(s) THEN 0 ELSE IF s[i] = "," THEN i ELSE FirstComma(s, i + 1)

\* s.split(','): the pieces between the commas, empty pieces kept
RECURSIVE SplitComma(_)
SplitComma(s) ==
    LET c == FirstComma(s, 1) IN
    IF c = 0 THEN <<s>>
    ELSE <<SubSeq(s, 1, c - 1)>> \o SplitComma(SubSeq(s, c + 1, Len(s)))

\* str(v), the text of a value as a chunk sequence
PyStr(v) ==
    CASE v.t = "str" -> v.s
      [] v.t = "datestr" -> <<"YYYY-MM-DD">>
      [] v.t = "int" -> <<ToString(v.n)>>
      [] v.t = "bool" -> IF v.b THEN <<"True">> ELSE <<"False">>
      [] v.t = "null" -> <<"None">>
      [] v.t = "inf" -> <<"inf">>
      [] v.t = "float" -> <<"float">>
      [] v.t = "list" -> <<"[...]">>
      [] v.t = "dict" -> <<"{...}">>

Untitled == <<"Untitled", " ", "task">>

SmartBalance == <<"smart_balance">>

-----------------------------------------------------------------------------
(* tasks/serializers.py *)

\* extract_tasks_and_strategy: [exc, tasks_raw, strategy]
ExtractTasksAndStrategy(p) ==
    IF p.t = "list"
    THEN [exc |-> "none", tasks_raw |-> p, strategy |-> SmartBalance]
    ELSE IF p.t = "dict"
    THEN LET tr == Or(Get(p, "tasks"), ListV(<<>>))
             st == Or(Get(p, "strategy"), StrV(SmartBalance))
         IN  IF ~IsStr(st)
             THEN [exc |-> "AttributeError", tasks_raw |-> Null, strategy |-> <<>>]
             ELSE IF tr.t # "list"
             THEN [exc |-> "PayloadError", tasks_raw |-> Null, strategy |-> <<>>]
             ELSE [exc |-> "none", tasks_raw |-> tr, strategy |-> Strip(PyStr(st))]
    ELSE [exc |-> "PayloadError", tasks_raw |-> Null, strategy |-> <<>>]

-----------------------------------------------------------------------------
(* tasks/scoring.py: normalisation *)

\* _parse_date
ParseDate(v) ==
    IF ~Truthy(v) THEN Null
    ELSE IF v.t = "date" THEN v
    ELSE IF v.t = "datestr" THEN DateV(v.d)
    ELSE Null

\* float(x) of normalise_tasks, ValueError and TypeError caught
EstimatedHours(v) ==
    CASE v.t = "null" -> Null
      [] v.t = "int" -> FloatV(1000 * v.n)
      [] v.t = "float" -> v
      [] v.t = "inf" -> InfV
      [] v.t = "bool" -> FloatV(IF v.b THEN 1000 ELSE 0)
      [] v.t = "str" ->
            IF IsDigits(Strip(v.s)) THEN FloatV(1000 * DigitsValue(Strip(v.s)))
            ELSE IF Strip(v.s) = <<"inf">> THEN InfV
            ELSE Null
      [] OTHER -> Null

\* int(x) of normalise_tasks, ValueError and TypeError caught; int(inf) raises
\* OverflowError, which is not caught
Importance(v) ==
    CASE v.t = "null" -> Null
      [] v.t = "int" -> v
      [] v.t = "float" ->
            IntV(IF v.m >= 0 THEN v.m \div 1000 ELSE -((-v.m) \div 1000))
      [] v.t = "inf" -> [t |-> "raise", exc |-> "OverflowError"]
      [] v.t = "bool" -> IntV(IF v.b THEN 1 ELSE 0)
      [] v.t = "str" ->
            IF IsDigits(Strip(v.s)) THEN IntV(DigitsValue(Strip(v.s))) ELSE Null
      [] OTHER -> Null

\* [d.strip() for d in deps_raw.split(',') if d.strip()]
RECURSIVE StripTokens(_)
StripTokens(pieces) ==
    IF pieces = <<>> THEN <<>>
    ELSE LET d == Strip(Head(pieces)) IN
         (IF d # <<>> THEN <<StrV(d)>> ELSE <<>>) \o StripTokens(Tail(pieces))

Dependencies(v) ==
    LET deps_raw == Or(v, ListV(<<>>)) IN
    IF deps_raw.t = "str" THEN StripTokens(SplitComma(deps_raw.s))
    ELSE IF deps_raw.t = "datestr" THEN <<deps_raw>>
    ELSE IF deps_raw.t = "list" THEN deps_raw.items
    ELSE <<>>

\* raw.get("id", idx)
TaskId(raw, idx) == IF "id" \in DOMAIN raw.f THEN raw.f["id"] ELSE IntV(idx)

\* Title without the second fallback: a title of blanks stays empty
TitleStripOnly(raw) == Strip(PyStr(Or(Get(raw, "title"), StrV(Untitled))))

\* str(raw.get("title") or "Untitled task").strip() or "Untitled task"
Title(raw) ==
    LET s == Strip(PyStr(Or(Get(raw, "title"), StrV(Untitled)))) IN
    IF s # <<>> THEN s ELSE Untitled

\* one TaskInput
TaskInput(raw, idx) ==
    [id |-> TaskId(raw, idx),
     title |-> Title(raw),
     due_date |-> ParseDate(Get(raw, "due_date")),
     estimated_hours |-> EstimatedHours(Get(raw, "estimated_hours")),
     importance |-> Importance(Get(raw, "importance")),
     dependencies |-> Dependencies(Get(raw, "dependencies"))]

\* normalise_tasks: the loop over enumerate(raw_tasks, start=1), from entry idx
RECURSIVE NormaliseFrom(_, _)
NormaliseFrom(raws, idx) ==
    IF idx > Len(raws) THEN [exc |-> "none", tasks |-> <<>>]
    ELSE IF raws[idx].t # "dict" THEN NormaliseFrom(raws, idx + 1)
    ELSE IF Importance(Get(raws[idx], "importance")).t = "raise"
    THEN [exc |-> "OverflowError", tasks |-> <<>>]
    ELSE LET rest == NormaliseFrom(raws, idx + 1) IN
         IF rest.exc # "none" THEN rest
         ELSE [exc |-> "none",
               tasks |-> <<TaskInput(raws[idx], idx)>> \o rest.tasks]

NormaliseTasks(raws) == NormaliseFrom(raws, 1)

-----------------------------------------------------------------------------
(* tasks/scoring.py: the dependency graph *)

\* the dict key a value hashes and compares as: True == 1 == 1.0
Key(v) ==
    CASE v.t = "bool" -> IntV(IF v.b THEN 1 ELSE 0)
      [] v.t = "float" /\ v.m % 1000 = 0 -> IntV(v.m \div 1000)
      [] OTHER -> v

InSeq(x, s) == \E i \in 1..Len(s) : s[i] = x

\* the first loop of _build_graph: the keys in insertion order, or TypeError
RECURSIVE GraphKeys(_, _)
GraphKeys(ts, keys) ==
    IF ts = <<>> THEN [exc |-> "none", order |-> keys]
    ELSE LET id == Head(ts).id IN
         IF id = Null THEN GraphKeys(Tail(ts), keys)
         ELSE IF ~Hashable(id) THEN [exc |-> "TypeError", order |-> keys]
         ELSE IF InSeq(Key(id), keys) THEN GraphKeys(Tail(ts), keys)
         ELSE GraphKeys(Tail(ts), Append(keys, Key(id)))

\* the inner loop of _build_graph over one task's dependencies, from item i:
\* deps collects the known ones, dc counts one dependent per occurrence
RECURSIVE TaskDeps(_, _, _, _, _)
TaskDeps(dependencies, i, keys, deps, dc) ==
    IF i > Len(dependencies) THEN [exc |-> "none", deps |-> deps, dc |-> dc]
    ELSE LET dep == dependencies[i] IN
         IF ~Hashable(dep) THEN [exc |-> "TypeError", deps |-> deps, dc |-> dc]
         ELSE IF InSeq(Key(dep), keys)
         THEN TaskDeps(dependencies, i + 1, keys, Append(deps, Key(dep)),
                       [dc EXCEPT ![Key(dep)] = @ + 1])
         ELSE TaskDeps(dependencies, i + 1, keys, deps, dc)

\* the second loop of _build_graph, from task i
RECURSIVE GraphEdges(_, _, _, _, _)
GraphEdges(ts, i, keys, g, dc) ==
    IF i > Len(ts) THEN [exc |-> "none", graph |-> g, dependents_count |-> dc]
    ELSE IF ts[i].id = Null THEN GraphEdges(ts, i + 1, keys, g, dc)
    ELSE LET r == TaskDeps(ts[i].dependencies, 1, keys, <<>>, dc) IN
         IF r.exc # "none"
         THEN [exc |-> r.exc, graph |-> g, dependents_count |-> dc]
         ELSE GraphEdges(ts, i + 1, keys,
                         [g EXCEPT ![Key(ts[i].id)] = r.deps], r.dc)

SeqRange(s) == {s[i] : i \in 1..Len(s)}

\* _build_graph: [exc, order, graph, dependents_count]
BuildGraphOf(ts) ==
    LET k == GraphKeys(ts, <<>>) IN
    IF k.exc # "none"
    THEN [exc |-> k.exc, order |-> <<>>, graph |-> <<>>, dependents_count |-> <<>>]
    ELSE LET e == GraphEdges(ts, 1, k.order,
                             [n \in SeqRange(k.order) |-> <<>>],
                             [n \in SeqRange(k.order) |-> 0])
         IN  [exc |-> e.exc, order |-> k.order, graph |-> e.graph,
              dependents_count |-> e.dependents_count]

-----------------------------------------------------------------------------
(* tasks/scoring.py: _detect_cycles *)

\* VisitHead testing `visited` where visit tests `stack`: every second
\* arrival at a node counts as a cycle
VisitHeadVisitedAsCycle(node, vis, stk, cyc) ==
    IF node \in vis
    THEN [enter |-> FALSE, visited |-> vis, stack |-> stk, in_cycle |-> cyc \cup stk]
    ELSE [enter |-> TRUE, visited |-> vis \cup {node}, stack |-> stk \cup {node},
          in_cycle |-> cyc]

\* VisitHead without visited.add(node): a finished node is entered again
VisitHeadNoVisitedAdd(node, vis, stk, cyc) ==
    IF node \in stk
    THEN [enter |-> FALSE, visited |-> vis, stack |-> stk, in_cycle |-> cyc \cup stk]
    ELSE IF node \in vis
    THEN [enter |-> FALSE, visited |-> vis, stack |-> stk, in_cycle |-> cyc]
    ELSE [enter |-> TRUE, visited |-> vis, stack |-> stk \cup {node},
          in_cycle |-> cyc]

\* the head of visit(node), before its loop: what it does to the three sets
\* and whether it goes on to the loop (enter)
VisitHead(node, vis, stk, cyc) ==
    IF node \in stk
    THEN [enter |-> FALSE, visited |-> vis, stack |-> stk, in_cycle |-> cyc \cup stk]
    ELSE IF node \in vis
    THEN [enter |-> FALSE, visited |-> vis, stack |-> stk, in_cycle |-> cyc]
    ELSE [enter |-> TRUE, visited |-> vis \cup {node}, stack |-> stk \cup {node},
          in_cycle |-> cyc]

\* visit without stack.remove(node)
StackRemoveNothing(stk, node) == stk

\* stack.remove(node)
StackRemove(stk, node) == stk \ {node}

-----------------------------------------------------------------------------
(* tasks/scoring.py: the factor scorers, in 1/FU *)

\* factor scores are held in 1/FU, so that every score the piecewise-linear
\* scorers and the 0.75 penalty produce on thousandths of an hour is whole;
\* weights are held in hundredths, so a composite c stands for c/(100*FU)
FU == 12 * 100

Min(a, b) == IF a <= b THEN a ELSE b

Max(a, b) == IF a >= b THEN a ELSE b

\* _clamp
Clamp(value, min_value, max_value) == Max(min_value, Min(max_value, value))

\* _urgency_score; delta_days = (due - today).days is the day held by the date
UrgencyScore(due) ==
    IF due = Null THEN 50 * FU
    ELSE IF due.d < 0 THEN 100 * FU
    ELSE IF due.d = 0 THEN 95 * FU
    ELSE IF due.d <= 30 THEN 30 * FU + (30 - due.d) * 2 * FU
    ELSE 20 * FU

\* _importance_score
ImportanceScore(importance) ==
    IF importance = Null THEN 50 * FU
    ELSE Clamp(importance.n, 1, 10) * 10 * FU

\* _effort_score; hours is None, a finite float in thousandths, or inf
EffortScore(hours) ==
    IF hours = Null THEN 50 * FU
    ELSE IF hours.t = "inf" THEN 20 * FU
    ELSE LET h == Max(0, hours.m) IN
         IF h = 0 THEN 100 * FU
         ELSE IF h <= 1000 THEN 95 * FU
         ELSE IF h <= 4000 THEN 95 * FU - ((h - 1000) * 35 * FU) \div 3000
         ELSE IF h <= 8000 THEN 60 * FU - ((h - 4000) * 30 * FU) \div 4000
         ELSE 20 * FU

\* dependents_count.get(task.id, 0)
Dependents(id, dc) == IF Key(id) \in DOMAIN dc THEN dc[Key(id)] ELSE 0

\* the penalty of _dependency_score: base *= 0.75
CyclePenalty(base) == (base * 3) \div 4

\* _dependency_score
DependencyScore(task, dc, cyc) ==
    IF task.id = Null THEN 40 * FU
    ELSE LET base == 40 * FU + Min(Dependents(task.id, dc) * 15 * FU, 45 * FU) IN
         IF Key(task.id) \in cyc THEN CyclePenalty(base) ELSE base

FastestWins == <<"fastest_wins">>

HighImpact == <<"high_impact">>

DeadlineDriven == <<"deadline_driven">>

\* strategy or "smart_balance"
EffectiveStrategy(s) == IF s = <<>> THEN SmartBalance ELSE s

Recognized(s) ==
    EffectiveStrategy(s) \in {FastestWins, HighImpact, DeadlineDriven, SmartBalance}

\* _compute_score_for_strategy for a recognized strategy, in 1/(100*FU)
ComputeScoreForStrategy(urgency, importance, effort, dependency, s) ==
    LET st == EffectiveStrategy(s) IN
    CASE st = FastestWins -> 60 * effort + 25 * importance + 15 * urgency
      [] st = HighImpact -> 70 * importance + 20 * urgency + 10 * dependency
      [] st = DeadlineDriven -> 70 * urgency + 20 * importance + 10 * dependency
      [] st = SmartBalance ->
            35 * importance + 30 * urgency + 20 * dependency + 15 * effort

\* round(score, 2): the composite in hundredths, ties to even
Round2(c) ==
    LET q == c \div FU
        r == c % FU
    IN  IF 2 * r < FU THEN q
        ELSE IF 2 * r > FU THEN q + 1
        ELSE IF q % 2 = 0 THEN q ELSE q + 1

\* t.due_date.isoformat() if t.due_date else None
IsoFormat(due) == IF due = Null THEN Null ELSE DateStrV(due.d, TRUE)

\* the record rank_tasks builds for one task; idx is its place in `tasks`
ScoredTask(t, idx, dc, cyc, s) ==
    [id |-> t.id,
     title |-> t.title,
     due_date |-> IsoFormat(t.due_date),
     estimated_hours |-> t.estimated_hours,
     importance |-> t.importance,
     dependencies |-> t.dependencies,
     dependency |-> DependencyScore(t, dc, cyc),
     score |-> Round2(ComputeScoreForStrategy(
                          UrgencyScore(t.due_date),
                          ImportanceScore(t.importance),
                          EffortScore(t.estimated_hours),
                          DependencyScore(t, dc, cyc), s)),
     idx |-> idx]

\* the sentinel of sort_key for a task without a due date
NoDueWeight == 99999

\* sort_key's due_weight
DueWeight(item) ==
    LET due == ParseDate(Or(item.due_date, Null)) IN
    IF due = Null THEN NoDueWeight ELSE due.d

\* sort_key's importance_val: item.get("importance") or 0
ImportanceVal(item) ==
    IF item.importance # Null /\ Truthy(item.importance) THEN item.importance.n ELSE 0

\* sort_key with the importance left unnegated
SortKeyImportanceAscending(item) ==
    <<-item.score, DueWeight(item), ImportanceVal(item)>>

\* sort_key
SortKey(item) == <<-item.score, DueWeight(item), -ImportanceVal(item)>>

\* tuple comparison a < b
KeyLess(a, b) ==
    \/ a[1] < b[1]
    \/ a[1] = b[1] /\ a[2] < b[2]
    \/ a[1] = b[1] /\ a[2] = b[2] /\ a[3] < b[3]

\* where a stable sort puts x in the sorted list s: after every item whose key
\* is not greater than x's
RECURSIVE InsertSorted(_, _)
InsertSorted(s, x) ==
    IF s = <<>> THEN <<x>>
    ELSE IF KeyLess(SortKey(x), SortKey(Head(s))) THEN <<x>> \o s
    ELSE <<Head(s)>> \o InsertSorted(Tail(s), x)

\* results.sort(key=sort_key): list.sort is stable
RECURSIVE SortFrom(_, _, _)
SortFrom(items, i, sorted) ==
    IF i > Len(items) THEN sorted
    ELSE SortFrom(items, i + 1, InsertSorted(sorted, items[i]))

SortResultsOf(items) == SortFrom(items, 1, <<>>)

-----------------------------------------------------------------------------
(* The request: views.analyze_tasks calling extract_tasks_and_strategy and  *)
(* rank_tasks                                                               *)

\* an exception leaves rank_tasks or extract_tasks_and_strategy
Raise(e) ==
    /\ pc' = "responded"
    /\ exc' = e

\* tasks_raw, strategy = extract_tasks_and_strategy(payload)
Extract ==
    /\ pc = "extract"
    /\ \E r \in {ExtractTasksAndStrategy(payload)} :
       IF r.exc # "none"
       THEN /\ Raise(r.exc)
            /\ UNCHANGED <<tasks_raw, strategy>>
       ELSE /\ tasks_raw' = r.tasks_raw
            /\ strategy' = r.strategy
            /\ pc' = "normalise"
            /\ exc' = exc
    /\ UNCHANGED <<payload, tasks, order, graph, dependents_count, visited,
                   stack, in_cycle, root_i, frames, entered, results>>

\* tasks = normalise_tasks(raw_tasks)
Normalise ==
    /\ pc = "normalise"
    /\ \E r \in {NormaliseTasks(tasks_raw.items)} :
       IF r.exc # "none"
       THEN /\ Raise(r.exc)
            /\ tasks' = tasks
       ELSE /\ tasks' = r.tasks
            /\ pc' = "build_graph"
            /\ exc' = exc
    /\ UNCHANGED <<payload, tasks_raw, strategy, order, graph, dependents_count,
                   visited, stack, in_cycle, root_i, frames, entered, results>>

\* graph, dependents_count = _build_graph(tasks), and the three empty sets
\* _detect_cycles starts from
BuildGraph ==
    /\ pc = "build_graph"
    /\ \E r \in {BuildGraphOf(tasks)} :
       IF r.exc # "none"
       THEN /\ Raise(r.exc)
            /\ UNCHANGED <<order, graph, dependents_count, entered>>
       ELSE /\ order' = r.order
            /\ graph' = r.graph
            /\ dependents_count' = r.dependents_count
            /\ entered' = [n \in SeqRange(r.order) |-> 0]
            /\ pc' = "detect_cycles"
            /\ exc' = exc
    /\ visited' = {}
    /\ stack' = {}
    /\ in_cycle' = {}
    /\ root_i' = 1
    /\ frames' = <<>>
    /\ UNCHANGED <<payload, tasks_raw, strategy, tasks, results>>

\* a call visit(node) made while the calls `below` are active
Visit(node, below) ==
    LET h == VisitHead(node, visited, stack, in_cycle) IN
    /\ visited' = h.visited
    /\ stack' = h.stack
    /\ in_cycle' = h.in_cycle
    /\ frames' = IF h.enter THEN Append(below, [node |-> node, i |-> 1]) ELSE below
    /\ entered' = IF h.enter THEN [entered EXCEPT ![node] = @ + 1] ELSE entered

\* one iteration of `for node in graph: if node not in visited: visit(node)`
VisitRoot ==
    /\ pc = "detect_cycles"
    /\ frames = <<>>
    /\ root_i <= Len(order)
    /\ root_i' = root_i + 1
    /\ IF order[root_i] \notin visited
       THEN Visit(order[root_i], <<>>)
       ELSE UNCHANGED <<visited, stack, in_cycle, frames, entered>>
    /\ UNCHANGED <<pc, payload, tasks_raw, strategy, tasks, order, graph,
                   dependents_count, results, exc>>

\* one iteration of `for neighbor in graph.get(node, []): visit(neighbor)` in
\* the innermost active call
VisitNeighbor ==
    /\ pc = "detect_cycles"
    /\ frames # <<>>
    /\ LET top == frames[Len(frames)] IN
       /\ top.i <= Len(graph[top.node])
       /\ Visit(graph[top.node][top.i],
                [frames EXCEPT ![Len(frames)].i = top.i + 1])
    /\ UNCHANGED <<pc, payload, tasks_raw, strategy, tasks, order, graph,
                   dependents_count, root_i, results, exc>>

\* the innermost active call ends its loop: stack.remove(node), return
VisitReturn ==
    /\ pc = "detect_cycles"
    /\ frames # <<>>
    /\ LET top == frames[Len(frames)] IN
       /\ top.i > Len(graph[top.node])
       /\ stack' = StackRemove(stack, top.node)
       /\ frames' = SubSeq(frames, 1, Len(frames) - 1)
    /\ UNCHANGED <<pc, payload, tasks_raw, strategy, tasks, order, graph,
                   dependents_count, visited, in_cycle, root_i, entered,
                   results, exc>>

\* return in_cycle
DetectCyclesReturn ==
    /\ pc = "detect_cycles"
    /\ frames = <<>>
    /\ root_i > Len(order)
    /\ pc' = "score"
    /\ UNCHANGED <<payload, tasks_raw, strategy, tasks, order, graph,
                   dependents_count, visited, stack, in_cycle, root_i, frames,
                   entered, results, exc>>

\* the loop `for t in tasks` of rank_tasks: the first task scored under an
\* unknown strategy raises StrategyError
ScoreTasks ==
    /\ pc = "score"
    /\ IF tasks # <<>> /\ ~Recognized(strategy)
       THEN /\ Raise("StrategyError")
            /\ results' = results
       ELSE /\ results' = [i \in 1..Len(tasks) |->
                              ScoredTask(tasks[i], i, dependents_count,
                                         in_cycle, strategy)]
            /\ pc' = "sort"
            /\ exc' = exc
    /\ UNCHANGED <<payload, tasks_raw, strategy, tasks, order, graph,
                   dependents_count, visited, stack, in_cycle, root_i, frames,
                   entered>>

\* results.sort(key=sort_key); return results; the view answers with them
SortResults ==
    /\ pc = "sort"
    /\ results' = SortResultsOf(results)
    /\ pc' = "responded"
    /\ UNCHANGED <<payload, tasks_raw, strategy, tasks, order, graph,
                   dependents_count, visited, stack, in_cycle, root_i, frames,
                   entered, exc>>

\* the steps of one request after its body is read
Handle ==
    \/ Extract
    \/ Normalise
    \/ BuildGraph
    \/ VisitRoot
    \/ VisitNeighbor
    \/ VisitReturn
    \/ DetectCyclesReturn
    \/ ScoreTasks
    \/ SortResults

-----------------------------------------------------------------------------
(* The requests checked *)

\* most entries of a task collection of mixed shapes
MaxEntries == 2

\* tasks of a dependency graph
NumTasks == 3

\* most dependency references of a dependency graph, over all its tasks
MaxEdges == 4

\* tasks of a collection ranked for its order
NumRanked == 2

SeqsUpTo(S, n) == UNION {[1..k -> S] : k \in 0..n}

\* a field left out of a record
Absent == [t |-> "absent"]

\* the JSON object with the fields of r that are not Absent
Object(r) == DictV([k \in {f \in DOMAIN r : r[f] # Absent} |-> r[k]])

\* entries of mixed shapes: a bare scalar, records without id, with a null
\* id, with unhashable ids and dependency items, with infinite numbers, with
\* fields of the wrong type, with string and list dependencies
Entries ==
    {StrV(<<"not", " ", "a", " ", "record">>),
     DictV(<<>>),
     DictV([title |-> StrV(<<"X">>)]),
     DictV([id |-> Null, title |-> StrV(<<" ">>)]),
     DictV([id |-> ListV(<<>>)]),
     DictV([id |-> IntV(1), dependencies |-> ListV(<<DictV(<<>>)>>)]),
     DictV([importance |-> InfV]),
     DictV([estimated_hours |-> InfV, title |-> IntV(7)]),
     DictV([id |-> StrV(<<"2">>),
            dependencies |-> StrV(<<"2", ",", " ", "3", ",", "2">>)]),
     DictV([id |-> IntV(1), title |-> IntV(0), due_date |-> StrV(<<"soon">>),
            estimated_hours |-> StrV(<<"abc">>), importance |-> ListV(<<>>),
            dependencies |-> IntV(7)]),
     DictV([id |-> IntV(2), due_date |-> DateStrV(3, FALSE),
            estimated_hours |-> StrV(<<" ", "1", "2">>),
            importance |-> FloatV(7900),
            dependencies |-> ListV(<<IntV(1), IntV(2), Null>>)])}

\* the collections of at most n entries
Collections(n) == {ListV(s) : s \in SeqsUpTo(Entries, n)}

\* what the `tasks` field of an object payload may hold besides a collection
OtherTasks ==
    {Absent, Null, IntV(0), IntV(5), BoolV(FALSE), BoolV(TRUE), StrV(<<>>),
     StrV(<<"x">>), DictV(<<>>), DictV([a |-> IntV(1)])}

Strategies ==
    {Absent, StrV(<<>>), StrV(<<" ">>), StrV(<<"bogus">>),
     StrV(<<" ", "fastest_wins", " ">>), StrV(HighImpact),
     StrV(DeadlineDriven), IntV(5)}

\* payloads of every shape, their collections of at most n entries
PayloadInputs(n) ==
    Collections(n)
    \cup {Null, IntV(3), BoolV(TRUE), StrV(<<"x">>)}
    \cup {Object([tasks |-> ts, strategy |-> st]) :
            ts \in Collections(n) \cup OtherTasks, st \in Strategies}

\* the ways to give n tasks dependency lists over ids with at most e
\* references in all, the first list holding k references or more
RECURSIVE DepAssignments(_, _, _, _)
DepAssignments(ids, n, e, k) ==
    IF n = 0 THEN {<<>>}
    ELSE IF k > e THEN {}
    ELSE {<<l>> \o g : l \in [1..k -> ids],
                       g \in DepAssignments(ids, n - 1, e - k, 0)}
         \cup DepAssignments(ids, n, e, k + 1)

\* payloads that are a dependency graph: tasks 1..n, every list of
\* references among them with at most e references in all, in every order,
\* duplicates and self-references included
GraphInputs(n, e) ==
    {ListV([i \in 1..n |->
               DictV([id |-> IntV(i), dependencies |-> ListV(g[i])])]) :
       g \in DepAssignments({IntV(i) : i \in 1..n}, n, e, 0)}

\* the tasks a ranked collection is made of: with and without a due date, due
\* soon and due later than the sentinel, hours a thousandth apart and an hour
\* apart, importance missing, in range and beyond it
RankTasks(i) ==
    {Object([id |-> IntV(i), due_date |-> due, estimated_hours |-> h,
             importance |-> imp, dependencies |-> deps]) :
       due \in {Absent, DateStrV(10, TRUE), DateStrV(100000, TRUE)},
       h \in {FloatV(4000), FloatV(4001), FloatV(5000)},
       imp \in {Absent, IntV(5), IntV(12)},
       deps \in IF i = 1 THEN {Absent, ListV(<<IntV(2)>>)} ELSE {Absent}}

RECURSIVE RankCollections(_)
RankCollections(n) ==
    IF n = 0 THEN {<<>>}
    ELSE {Append(c, x) : c \in RankCollections(n - 1), x \in RankTasks(n)}

\* payloads of n tasks to rank
RankInputs(n) ==
    {DictV([tasks |-> ListV(c), strategy |-> StrV(st)]) :
       c \in RankCollections(n), st \in {FastestWins, SmartBalance}}

\* analyze_tasks before it has read the request body
Init ==
    /\ pc = "receive"
    /\ payload = Null
    /\ tasks_raw = Null
    /\ strategy = <<>>
    /\ tasks = <<>>
    /\ order = <<>>
    /\ graph = <<>>
    /\ dependents_count = <<>>
    /\ visited = {}
    /\ stack = {}
    /\ in_cycle = {}
    /\ root_i = 1
    /\ frames = <<>>
    /\ entered = <<>>
    /\ results = <<>>
    /\ exc = "none"

\* payload = json.loads(raw_body), the body holding a payload of P
Receive(P) ==
    /\ pc = "receive"
    /\ payload' \in P
    /\ pc' = "extract"
    /\ UNCHANGED <<tasks_raw, strategy, tasks, order, graph, dependents_count,
                   visited, stack, in_cycle, root_i, frames, entered, results,
                   exc>>

ReceivePayload == Receive(PayloadInputs(MaxEntries))

ReceiveGraph == Receive(GraphInputs(NumTasks, MaxEdges))

ReceiveRanked == Receive(RankInputs(NumRanked))

Next == ReceivePayload \/ Handle

GraphNext == ReceiveGraph \/ Handle

RankNext == ReceiveRanked \/ Handle

\* requests with payloads of every shape
Spec == Init /\ [][Next]_vars

\* requests whose payload is a dependency graph
GraphSpec == Init /\ [][GraphNext]_vars

\* the steps of _detect_cycles
Traverse == VisitRoot \/ VisitNeighbor \/ VisitReturn \/ DetectCyclesReturn

\* the same, the traversal running on: _detect_cycles is synchronous code,
\* nothing suspends it between two of its steps
FairGraphSpec == GraphSpec /\ WF_vars(Traverse)

\* requests ranked for their order
RankSpec == Init /\ [][RankNext]_vars

-----------------------------------------------------------------------------
(* What the properties speak of *)

IsRecord(v) == v.t = "dict"

\* the entries of the collection that are records, in order
Kept == SelectSeq(tasks_raw.items, IsRecord)

\* rank_tasks was called: extract_tasks_and_strategy returned
Called == pc \notin {"receive", "extract"} /\ tasks_raw # Null

\* normalise_tasks has returned
Normalised == Called /\ pc # "normalise" /\ exc # "OverflowError"

\* _build_graph has returned
Built ==
    \/ pc \in {"detect_cycles", "score", "sort"}
    \/ pc = "responded" /\ exc \in {"none", "StrategyError"}

\* _detect_cycles has returned
Detected ==
    \/ pc \in {"score", "sort"}
    \/ pc = "responded" /\ exc \in {"none", "StrategyError"}

\* rank_tasks has returned its list
Ranked == pc = "responded" /\ exc = "none"

\* the nodes one or more edges away from the nodes of S
RECURSIVE ReachableFrom(_, _)
ReachableFrom(g, S) ==
    LET T == S \cup UNION {SeqRange(g[n]) : n \in S} IN
    IF T = S THEN S ELSE ReachableFrom(g, T)

\* n lies on a directed cycle of g: a self-loop or a longer one
OnCycle(n, g) == n \in ReachableFrom(g, SeqRange(g[n]))

Acyclic(g) == \A n \in DOMAIN g : ~OnCycle(n, g)

\* task i lists the key b among its dependencies
Lists(i, b) ==
    \E j \in 1..Len(tasks[i].dependencies) : Key(tasks[i].dependencies[j]) = b

-----------------------------------------------------------------------------
(* C1 *)

\* C1: rank_tasks never returns a ranked list for an unrecognized non-empty
\* strategy name: every call with one, whatever the collection (empty and
\* record-free ones included), ends in StrategyError.
C1_UnknownStrategyNeverRanks == (Called /\ Ranked) => Recognized(strategy)

-----------------------------------------------------------------------------
(* C2 *)

\* C2: under a recognized strategy no error aborts rank_tasks, whatever the
\* entries and the types of their fields: the call returns a ranked list.
C2_NoErrorAborts ==
    (Called /\ pc = "responded" /\ Recognized(strategy)) => exc = "none"

-----------------------------------------------------------------------------
(* C3 *)

\* C3: the k-th kept record, when it has no id field, gets the id k: the
\* default id counts kept records, not input positions.
C3_DefaultIdCountsKept ==
    Normalised =>
        \A k \in 1..Len(tasks) :
            "id" \notin DOMAIN Kept[k].f => tasks[k].id = IntV(k)

-----------------------------------------------------------------------------
(* C4 *)

\* C4 as stated: every task normalise_tasks produces has a non-null id and a
\* non-null, non-empty title, records with an explicit null id included.
C4_IdAndTitleNonNull ==
    Normalised =>
        \A k \in 1..Len(tasks) : tasks[k].id # Null /\ tasks[k].title # <<>>

\* C4 amended: every task normalise_tasks produces has a non-empty title
\* that is not blank at either end, and a non-null id unless its record
\* carries an explicit id field whose value is null.
C4_TitleNonEmptyIdNullOnlyIfGiven ==
    Normalised =>
        \A k \in 1..Len(tasks) :
            /\ tasks[k].title # <<>>
            /\ Strip(tasks[k].title) = tasks[k].title
            /\ tasks[k].id = Null =>
                   "id" \in DOMAIN Kept[k].f /\ Kept[k].f["id"] = Null

\* a record with an explicit null id and a title of blanks was normalised,
\* next to a record without id
C4_Witness ==
    /\ Normalised
    /\ \E k \in 1..Len(tasks) :
           /\ tasks[k].id = Null
           /\ "title" \in DOMAIN Kept[k].f
           /\ Kept[k].f["title"] = StrV(<<" ">>)
           /\ tasks[k].title = Untitled
    /\ \E k \in 1..Len(tasks) :
           "id" \notin DOMAIN Kept[k].f /\ tasks[k].id # Null

-----------------------------------------------------------------------------
(* C6 *)

\* the importance a ranked record is compared by, a missing one counting as 0
ImportanceOrZero(r) == IF r.importance = Null THEN 0 ELSE r.importance.n

\* a comes before b by the due date, a record without one coming after every
\* record that has one
DueFirstNoDueLast(a, b) ==
    /\ a.due_date # Null
    /\ b.due_date = Null \/ a.due_date.d < b.due_date.d

\* the days until a ranked record is due, a record without a due date
\* counting as due `sentinel` days from today
DaysOr(r, sentinel) == IF r.due_date = Null THEN sentinel ELSE r.due_date.d

\* a has the greater importance, or the same and came first in the input
LaterKeysInOrder(a, b) ==
    \/ ImportanceOrZero(a) > ImportanceOrZero(b)
    \/ ImportanceOrZero(a) = ImportanceOrZero(b) /\ a.idx < b.idx

\* C6 as stated: the returned list is in descending score; on equal scores
\* in ascending days until due, a task without a due date after every task
\* that has one; then in descending importance, a missing importance counting
\* as 0; and tasks equal on all three keys in their input order.
C6_NoDueDateAfterEveryDueDate ==
    Ranked =>
        \A i, j \in 1..Len(results) :
            i < j =>
                LET a == results[i]
                    b == results[j]
                IN  \/ a.score > b.score
                    \/ a.score = b.score /\ DueFirstNoDueLast(a, b)
                    \/ /\ a.score = b.score
                       /\ a.due_date = b.due_date
                       /\ LaterKeysInOrder(a, b)

\* C6, amended: the returned list is in descending score; on equal scores in
\* ascending days until due, a task without a due date counting as due 99999
\* days from today (after the tasks due sooner than that, before the tasks
\* due later); then in descending importance, a missing importance counting
\* as 0; and tasks equal on all three keys in their input order.
C6_NoDueDateSortsAtSentinel ==
    Ranked =>
        \A i, j \in 1..Len(results) :
            i < j =>
                LET a == results[i]
                    b == results[j]
                    da == DaysOr(a, NoDueWeight)
                    db == DaysOr(b, NoDueWeight)
                IN  \/ a.score > b.score
                    \/ a.score = b.score /\ da < db
                    \/ a.score = b.score /\ da = db /\ LaterKeysInOrder(a, b)

\* a ranked list where the sort moved a task without a due date ahead of an
\* equally scored task given before it and due later than the sentinel
C6_Witness ==
    /\ Ranked
    /\ \E i, j \in 1..Len(results) :
           /\ i < j
           /\ results[i].score = results[j].score
           /\ results[i].due_date = Null
           /\ results[j].due_date # Null
           /\ results[j].due_date.d > NoDueWeight
           /\ results[j].idx < results[i].idx

\* a ranked list where the sort moved a task ahead of one given before it,
\* equal in score and due date, by its importance
C6_ImportanceDecides ==
    /\ Ranked
    /\ \E i, j \in 1..Len(results) :
           /\ i < j
           /\ results[i].score = results[j].score
           /\ results[i].due_date = results[j].due_date
           /\ ImportanceOrZero(results[i]) > ImportanceOrZero(results[j])
           /\ results[j].idx < results[i].idx

-----------------------------------------------------------------------------
(* C7 *)

\* the payload is a list, or a record whose tasks field is a list
TasksIsList ==
    \/ payload.t = "list"
    \/ /\ payload.t = "dict"
       /\ "tasks" \in DOMAIN payload.f
       /\ payload.f["tasks"].t = "list"

\* the payload's strategy field, when there is one, is a string
StrategyIsString ==
    (payload.t = "dict" /\ "strategy" \in DOMAIN payload.f)
        => payload.f["strategy"].t = "str"

\* C7: extract_tasks_and_strategy fails with PayloadError, and nothing is
\* ranked, whenever the payload is neither a list nor a record whose tasks
\* field is a list: a record without tasks, or with tasks null, a number, a
\* boolean, a string or a record, is refused.
C7_NonListTasksRefused ==
    (pc \notin {"receive", "extract"} /\ StrategyIsString /\ ~TasksIsList)
        => (exc = "PayloadError" /\ tasks_raw = Null)

-----------------------------------------------------------------------------
(* C5 *)

\* C5: every task id that lies on a directed cycle of the dependency graph
\* (a self-loop, a 2-cycle or a longer one) is in the set _detect_cycles
\* returns, in whatever order the tasks and dependencies are listed, and its
\* dependency score carries the 0.75 penalty.
C5_CycleNodesFlagged ==
    Detected =>
        /\ \A n \in DOMAIN graph : OnCycle(n, graph) => n \in in_cycle
        /\ Ranked =>
               \A i \in 1..Len(results) :
                   (results[i].id # Null /\ OnCycle(Key(results[i].id), graph))
                       => results[i].dependency =
                              CyclePenalty(40 * FU
                                  + Min(Dependents(results[i].id, dependents_count)
                                            * 15 * FU, 45 * FU))

-----------------------------------------------------------------------------
(* C8 *)

\* the tasks other than those with id b that list b as a dependency
OtherTasksListing(b) ==
    {i \in 1..Len(tasks) :
        tasks[i].id # Null /\ Key(tasks[i].id) # b /\ Lists(i, b)}

\* C8: the dependents count of a task id is the number of other tasks that
\* list it: a task listing itself, or listing the id twice, adds nothing
\* beyond one per distinct other task.
C8_DependentsCountOtherTasks ==
    Built =>
        \A b \in DOMAIN dependents_count :
            dependents_count[b] = Cardinality(OtherTasksListing(b))

-----------------------------------------------------------------------------
(* C9 *)

\* no node was added to visited and stack twice
EnteredAtMostOnce == \A n \in DOMAIN entered : entered[n] <= 1

\* once _detect_cycles has returned nothing is left on the stack and no call
\* of visit is active, and every node of the graph was entered
StackEmptyOnReturn ==
    Detected =>
        /\ stack = {}
        /\ frames = <<>>
        /\ \A n \in DOMAIN entered : entered[n] = 1

\* the nodes on the stack are the nodes of the active calls of visit: each is
\* taken off the stack when its call returns
StackIsActiveCalls == stack = {frames[i].node : i \in 1..Len(frames)}

RECURSIVE SumOver(_, _)
SumOver(S, f) ==
    IF S = {} THEN 0
    ELSE LET x == CHOOSE y \in S : TRUE IN f[x] + SumOver(S \ {x}, f)

\* what is left of the traversal: the return, the roots not yet tried, the
\* neighbours not yet tried and the return of every active call, and the
\* entry, the neighbours and the return of every node not yet entered
WorkLeft ==
    (IF pc = "detect_cycles" THEN 1 ELSE 0)
    + (Len(order) + 1 - root_i)
    + SumOver(1..Len(frames),
              [i \in 1..Len(frames) |->
                  Len(graph[frames[i].node]) + 2 - frames[i].i])
    + SumOver(DOMAIN graph \ visited,
              [n \in DOMAIN graph \ visited |-> Len(graph[n]) + 2])

\* the traversal is never stuck before it returns, and the work left is
\* never negative
TraversalProgresses ==
    pc = "detect_cycles" => (ENABLED Handle /\ WorkLeft >= 0)

-----------------------------------------------------------------------------
(* C10 *)

\* C10: when the dependency graph has no directed cycle, self-loops
\* included, _detect_cycles flags nothing, and every dependency score is
\* 40 + min(15 * dependents, 45) without the 0.75 penalty: whenever a node
\* is flagged or a score differs, the graph has a cycle.
C10_AcyclicNothingFlagged ==
    Built =>
        \/ /\ in_cycle = {}
           /\ Ranked =>
                  \A i \in 1..Len(results) :
                      results[i].dependency =
                          40 * FU
                          + Min(Dependents(results[i].id, dependents_count)
                                    * 15 * FU,
                                45 * FU)
        \/ ~Acyclic(graph)

\* a ranked acyclic graph in which the traversal came to a finished node a
\* second time: a task two others depend on
C10_Witness ==
    /\ Ranked
    /\ Acyclic(graph)
    /\ \E n \in DOMAIN graph :
           Cardinality({m \in DOMAIN graph : InSeq(n, graph[m])}) >= 2
    /\ \E i \in 1..Len(results) : results[i].dependency > 40 * FU

====
